---- MODULE Spec2Model ----
(***************************************************************************)
(* kural-dub: the transcript decoder (parseScript), the seek handler       *)
(* (handleSeek) and the App state they act on (videoFile, script, error,   *)
(* processing), modelled from src/unnamed/part_000.                        *)
(*                                                                         *)
(* Text is a sequence of characters, one character per one-element string; *)
(* U+2013 (en dash) is the token EnDash.  Numbers are fixed point, in      *)
(* thousandths of a second, with NaN a separate value.                     *)
(***************************************************************************)
EXTENDS Integers, Sequences, FiniteSets, TLC

VARIABLES
    videoFile,    \* useState<File | null>            (part_000:88)
    videoUrl,     \* useState<string | null>          (part_000:89)
    script,       \* useState<ScriptLine[] | null>    (part_000:90)
    error,        \* useState<string | null>          (part_000:84)
    processing,   \* useState<ProcessingState>        (part_000:91)
    genPc,        \* where the running generateTamilScript is suspended
    genFile,      \* the videoFile its closure captured
    input,        \* the blocks the text under decode was written from
    rawText,      \* the text handed to parseScript
    lines,        \* parseScript's local `lines` when it last finished
    scriptFile,   \* the file whose answer the script held was decoded from
    seekTime,     \* the argument of handleSeek
    currentTime,  \* videoRef.current.currentTime
    playing,      \* the media element is playing
    playPending,  \* a play() promise is not settled yet
    last          \* the handler that ran last

vars == <<videoFile, videoUrl, script, error, processing, genPc, genFile,
          input, rawText, lines, scriptFile, seekTime, currentTime, playing,
          playPending, last>>

----------------------------------------------------------------------------
(* Bounds *)

\* the longest text under decode, in '---'-delimited blocks
MaxBlocks == 3
\* the most colon-separated components of a seek argument
MaxParts == 4

----------------------------------------------------------------------------
(* Characters and strings *)

EnDash == "U+2013"

Digits == {"0", "1", "2", "3", "4", "5", "6", "7", "8", "9"}

\* \s of the regular expressions and the set String.prototype.trim strips
WhiteSpace == {" ", "\n", "\t", "\r"}

\* what `.` does not match
LineTerminators == {"\n", "\r"}

LowerOf ==
    [c \in {"A", "B", "C", "D", "E", "F", "G", "H", "I", "J", "K", "L", "M",
            "N", "O", "P", "Q", "R", "S", "T", "U", "V", "W", "X", "Y", "Z"} |->
        CASE c = "A" -> "a" [] c = "B" -> "b" [] c = "C" -> "c" [] c = "D" -> "d"
          [] c = "E" -> "e" [] c = "F" -> "f" [] c = "G" -> "g" [] c = "H" -> "h"
          [] c = "I" -> "i" [] c = "J" -> "j" [] c = "K" -> "k" [] c = "L" -> "l"
          [] c = "M" -> "m" [] c = "N" -> "n" [] c = "O" -> "o" [] c = "P" -> "p"
          [] c = "Q" -> "q" [] c = "R" -> "r" [] c = "S" -> "s" [] c = "T" -> "t"
          [] c = "U" -> "u" [] c = "V" -> "v" [] c = "W" -> "w" [] c = "X" -> "x"
          [] c = "Y" -> "y" [] c = "Z" -> "z"]

\* the case folding of the /i flag
ToLower(c) == IF c \in DOMAIN LowerOf THEN LowerOf[c] ELSE c

FoldCase(s) == [i \in 1..Len(s) |-> ToLower(s[i])]

Range(s) == {s[i] : i \in 1..Len(s)}

Min(S) == CHOOSE i \in S : \A j \in S : i <= j

\* pat occurs in s at position i
MatchesAt(s, pat, i) ==
    /\ i >= 1
    /\ i + Len(pat) - 1 <= Len(s)
    /\ \A k \in 1..Len(pat) : s[i + k - 1] = pat[k]

\* the leftmost position of pat in s, 0 when there is none
IndexOf(s, pat) ==
    LET hits == {i \in 1..(Len(s) - Len(pat) + 1) : MatchesAt(s, pat, i)}
    IN  IF hits = {} THEN 0 ELSE Min(hits)

\* String.prototype.split with a literal separator
RECURSIVE Split(_, _)
Split(s, sep) ==
    LET i == IndexOf(s, sep)
    IN  IF i = 0 THEN <<s>>
        ELSE <<SubSeq(s, 1, i - 1)>> \o Split(SubSeq(s, i + Len(sep), Len(s)), sep)

\* String.prototype.trim
Trim(s) ==
    LET keep == {i \in 1..Len(s) : s[i] \notin WhiteSpace}
    IN  IF keep = {} THEN <<>>
        ELSE SubSeq(s, Min(keep), CHOOSE i \in keep : \A j \in keep : j <= i)

\* the end (exclusive) of the longest run of characters of class from position i
RunEnd(s, i, class) ==
    LET stops == {j \in i..Len(s) : s[j] \notin class}
    IN  IF stops = {} THEN Len(s) + 1 ELSE Min(stops)

----------------------------------------------------------------------------
(* The regular expressions of parseScript *)

NoMatch == [found |-> FALSE, g1 |-> <<>>, g2 |-> <<>>]

\* [\d:.]
TimeChars == Digits \cup {":", "."}

\* ([\d:.]+) from position i: the end (exclusive) of the group, 0 when the
\* group would be empty.  The character that follows the group in both
\* patterns is outside the class, so only the longest run can match.
TimeGroupRelaxed(s, i) == RunEnd(s, i, TimeChars)

TimeGroup(s, i) ==
    LET e == RunEnd(s, i, TimeChars) IN IF e > i THEN e ELSE 0

\* /\[([\d:.]+) D ([\d:.]+)\]/ anchored at position i, D the dash
TimeRangeAt(s, dash, i) ==
    IF i > Len(s) \/ s[i] # "[" THEN NoMatch
    ELSE LET e1 == TimeGroup(s, i + 1)
         IN  IF e1 = 0 \/ ~MatchesAt(s, <<" ", dash, " ">>, e1) THEN NoMatch
             ELSE LET e2 == TimeGroup(s, e1 + 3)
                  IN  IF e2 = 0 \/ e2 > Len(s) \/ s[e2] # "]" THEN NoMatch
                      ELSE [found |-> TRUE,
                            g1 |-> SubSeq(s, i + 1, e1 - 1),
                            g2 |-> SubSeq(s, e1 + 3, e2 - 1)]

\* block.match(/\[([\d:.]+) D ([\d:.]+)\]/): the leftmost match
TimeRangeMatch(s, dash) ==
    LET hits == {i \in 1..Len(s) : TimeRangeAt(s, dash, i).found}
    IN  IF hits = {} THEN NoMatch ELSE TimeRangeAt(s, dash, Min(hits))

\* block.match(en dash pattern) || block.match(hyphen pattern)
timeMatchEnDashOnly(block) == TimeRangeMatch(block, EnDash)

timeMatchHyphenFirst(block) ==
    IF TimeRangeMatch(block, "-").found
    THEN TimeRangeMatch(block, "-")
    ELSE TimeRangeMatch(block, EnDash)

timeMatch(block) ==
    IF TimeRangeMatch(block, EnDash).found
    THEN TimeRangeMatch(block, EnDash)
    ELSE TimeRangeMatch(block, "-")

\* block.match(/<label>\s*(.*)/i): the leftmost occurrence of the label in
\* any letter case, then all white space (line breaks included), then the
\* rest of the line the white space ended on
FieldMatch(block, label) ==
    LET i == IndexOf(FoldCase(block), FoldCase(label))
    IN  IF i = 0 THEN NoMatch
        ELSE LET b == RunEnd(block, i + Len(label), WhiteSpace)
                 e == RunEnd(block, b, {c \in Range(block) : c \notin LineTerminators})
             IN  [found |-> TRUE, g1 |-> SubSeq(block, b, e - 1), g2 |-> <<>>]

SpeakerLabel == <<"S", "p", "e", "a", "k", "e", "r", ":">>
MeaningLabel == <<"O", "r", "i", "g", "i", "n", "a", "l", " ", "M", "e", "a", "n", "i", "n", "g", ":">>
EmotionLabel == <<"E", "m", "o", "t", "i", "o", "n", ":">>
ActionLabel == <<"A", "c", "t", "i", "o", "n", " ", "D", "e", "s", "c", "r", "i", "p", "t", "i", "o", "n", ":">>
SLabel == <<"S", ":">>
TLabel == <<"T", ":">>
LLabel == <<"L", ":">>

speakerMatch(block) == FieldMatch(block, SpeakerLabel)
meaningMatch(block) == FieldMatch(block, MeaningLabel)
emotionMatch(block) == FieldMatch(block, EmotionLabel)
actionMatch(block) == FieldMatch(block, ActionLabel)
sMatch(block) == FieldMatch(block, SLabel)
tMatch(block) == FieldMatch(block, TLabel)
lMatch(block) == FieldMatch(block, LLabel)

Unknown == <<"U", "n", "k", "n", "o", "w", "n">>
Neutral == <<"N", "e", "u", "t", "r", "a", "l">>

\* m ? m[1].trim() : dflt
GroupOr(m, dflt) == IF m.found THEN Trim(m.g1) ELSE dflt

\* the object literal pushed for a block whose time range matched
ScriptLineOfNoLegacy(block) ==
    [startTime |-> Trim(timeMatch(block).g1),
     endTime |-> Trim(timeMatch(block).g2),
     person |-> GroupOr(speakerMatch(block), Unknown),
     emotion |-> GroupOr(emotionMatch(block), Neutral),
     originalMeaning |-> GroupOr(meaningMatch(block), <<>>),
     actionDescription |-> GroupOr(actionMatch(block), <<>>),
     dialogue |-> <<>>,
     versions |-> [spoken |-> GroupOr(sMatch(block), <<>>),
                   tanglish |-> GroupOr(tMatch(block), <<>>),
                   syncShort |-> GroupOr(lMatch(block), <<>>)]]

ScriptLineOf(block) ==
    [startTime |-> Trim(timeMatch(block).g1),
     endTime |-> Trim(timeMatch(block).g2),
     person |-> GroupOr(speakerMatch(block), Unknown),
     emotion |-> GroupOr(emotionMatch(block), Neutral),
     originalMeaning |-> GroupOr(meaningMatch(block), <<>>),
     actionDescription |-> GroupOr(actionMatch(block), <<>>),
     dialogue |-> GroupOr(sMatch(block), <<>>),
     versions |-> [spoken |-> GroupOr(sMatch(block), <<>>),
                   tanglish |-> GroupOr(tMatch(block), <<>>),
                   syncShort |-> GroupOr(lMatch(block), <<>>)]]

\* one turn of the loop over entryBlocks: the lines a block adds
BlockLinesNoSkip(block) ==
    IF Trim(block) = <<>> THEN <<>> ELSE <<ScriptLineOf(block)>>

BlockLines(block) ==
    IF Trim(block) = <<>> THEN <<>>
    ELSE IF ~timeMatch(block).found THEN <<>>
    ELSE <<ScriptLineOf(block)>>

Delimiter == <<"-", "-", "-">>

\* the loop of parseScript over entryBlocks, in order
RECURSIVE LoopReversed(_)
LoopReversed(entryBlocks) ==
    IF entryBlocks = <<>> THEN <<>>
    ELSE LoopReversed(Tail(entryBlocks)) \o BlockLines(Head(entryBlocks))

RECURSIVE Loop(_)
Loop(entryBlocks) ==
    IF entryBlocks = <<>> THEN <<>>
    ELSE BlockLines(Head(entryBlocks)) \o Loop(Tail(entryBlocks))

\* `lines` when parseScript reaches its last statement
ParseScriptLines(text) == Loop(Split(text, Delimiter))

----------------------------------------------------------------------------
(* The text under decode: what the generation request asks the model to    *)
(* write (OUTPUT FORMAT of systemPrompt), and the noise around it          *)

FieldNames ==
    <<"Speaker", "Original Meaning", "Emotion", "Action Description", "S", "T", "L">>

FieldSet == Range(FieldNames)

LabelOf(f) ==
    CASE f = "Speaker" -> SpeakerLabel
      [] f = "Original Meaning" -> MeaningLabel
      [] f = "Emotion" -> EmotionLabel
      [] f = "Action Description" -> ActionLabel
      [] f = "S" -> SLabel
      [] f = "T" -> TLabel
      [] f = "L" -> LLabel

\* values with no label-like text in them
PlainValue(f) ==
    CASE f = "Speaker" -> <<"K", "u", "m", "a", "r">>
      [] f = "Original Meaning" -> <<"H", "e", "l", "l", "o">>
      [] f = "Emotion" -> <<"H", "a", "p", "p", "y">>
      [] f = "Action Description" -> <<"C", "a", "m", "e", "r", "a", " ", "p", "a", "n", "s">>
      [] f = "S" -> <<"v", "a">>
      [] f = "T" -> <<"v", "a", "n", "a", "k", "k", "a", "m">>
      [] f = "L" -> <<"v", "n", "a">>

\* values in which a word ends in s, t or l before a colon
LooseValue(f) ==
    CASE f = "Speaker" -> <<"B", "o", "t", ":", " ", "X">>
      [] f = "Original Meaning" -> <<"H", "e", " ", "s", "a", "y", "s", ":", " ", "h", "i">>
      [] f = "Action Description" -> <<"B", "e", "l", "l", ":", " ", "r", "i", "n", "g">>
      [] OTHER -> PlainValue(f)

\* values of which the Speaker and S lines have none
BlankValue(f) ==
    CASE f = "Speaker" -> <<>>
      [] f = "S" -> <<>>
      [] OTHER -> PlainValue(f)

ValueOf(b, f) ==
    CASE b.vals = "loose" -> LooseValue(f)
      [] b.vals = "blank" -> BlankValue(f)
      [] OTHER -> PlainValue(f)

\* [START_TIME D END_TIME]
TimeLine(b) == <<"[">> \o b.start \o <<" ", b.dash, " ">> \o b.end \o <<"]">>

RECURSIVE FieldLines(_, _)
FieldLines(b, names) ==
    IF names = <<>> THEN <<>>
    ELSE (IF Head(names) \in b.fields
          THEN <<"\n">> \o LabelOf(Head(names)) \o <<" ">> \o ValueOf(b, Head(names))
          ELSE <<>>) \o FieldLines(b, Tail(names))

\* the second range of a block that has two, written with the other dash
TimeLine2(b) ==
    <<"[">> \o b.start2
        \o <<" ", IF b.dash = EnDash THEN "-" ELSE EnDash, " ">>
        \o b.end2 \o <<"]">>

BlockText(b) ==
    CASE b.kind = "noise" -> b.noise
      [] b.kind = "entry" -> TimeLine(b) \o FieldLines(b, b.order) \o <<"\n">>
      [] b.kind = "both" /\ ~b.late ->
            TimeLine(b) \o <<"\n">> \o TimeLine2(b) \o FieldLines(b, b.order) \o <<"\n">>
      [] b.kind = "both" /\ b.late ->
            TimeLine(b) \o FieldLines(b, b.order) \o <<"\n">> \o TimeLine2(b) \o <<"\n">>

RECURSIVE JoinBlocks(_)
JoinBlocks(blocks) ==
    IF blocks = <<>> THEN <<>>
    ELSE IF Len(blocks) = 1 THEN BlockText(blocks[1])
    ELSE BlockText(blocks[1]) \o Delimiter \o JoinBlocks(Tail(blocks))

\* the blocks joined by '---', each entry closed by one when in.closed
RawText(in) ==
    IF in.blocks = <<>> THEN <<>>
    ELSE JoinBlocks(in.blocks) \o (IF in.closed THEN Delimiter ELSE <<>>)

Entry(dash, start, end, fields, vals) ==
    [kind |-> "entry", dash |-> dash, start |-> start, end |-> end,
     fields |-> fields, vals |-> vals, noise |-> <<>>, order |-> FieldNames,
     start2 |-> <<>>, end2 |-> <<>>, late |-> FALSE]

Noise(text) ==
    [kind |-> "noise", dash |-> "-", start |-> <<>>, end |-> <<>>,
     fields |-> {}, vals |-> "plain", noise |-> text, order |-> FieldNames,
     start2 |-> <<>>, end2 |-> <<>>, late |-> FALSE]

\* the entry b with its labeled lines in another order
Permuted(b, order) == [b EXCEPT !.order = order]

\* a block with two time ranges: the first with dash, the second with the
\* other dash, straight after the first or (late) after the labeled lines
TwoRanges(dash, start, end, start2, end2, fields, late) ==
    [kind |-> "both", dash |-> dash, start |-> start, end |-> end,
     fields |-> fields, vals |-> "plain", noise |-> <<>>, order |-> FieldNames,
     start2 |-> start2, end2 |-> end2, late |-> late]

DialogueFirst ==
    <<"S", "T", "L", "Speaker", "Original Meaning", "Emotion", "Action Description">>

BottomUp ==
    <<"L", "T", "S", "Action Description", "Emotion", "Original Meaning", "Speaker">>

T0000 == <<"0", ":", "0", "0">>
T0005 == <<"0", ":", "0", "5">>
T0010 == <<"0", ":", "1", "0">>
T10130 == <<"1", ":", "0", "1", ":", "3", "0">>
T10200 == <<"1", ":", "0", "2", ":", "0", "0">>

\* blocks with no bracketed time range
NoiseMenu ==
    {Noise(<<>>), Noise(<<" ", "\n">>), Noise(<<"S", "p", "e", "a", "k", "e", "r", ":", " ", "K", "u", "m", "a", "r">>), Noise(<<"[", " ", EnDash, " ", "0", ":", "0", "5", "]">>),
     Noise(<<"-">>)}

NoiseSingles ==
    {Noise(<<"j", "u", "s", "t", " ", "p", "r", "o", "s", "e">>), Noise(<<"[", "0", ":", "0", "0", " ", "0", ":", "0", "5", "]">>), Noise(<<"[", "0", ":", "0", "0", " ", EnDash, " ", "]">>),
     Noise(<<"[", "0", ":", "0", "0", EnDash, "0", ":", "0", "5", "]">>), Noise(<<"[", "0", ":", "0", "0", " ", "-", " ", "x", "]">>)}

\* entries of the texts of several blocks
EntryMenu ==
    {Entry(EnDash, T0005, T0010, FieldSet, "plain"),
     Entry("-", T0000, T0005, {"Speaker", "S"}, "plain"),
     Entry(EnDash, T10130, T10200, {}, "plain")}

\* one entry, with every choice of fields
EntrySingles ==
    {Entry(d, T0000, T0005, fs, v) :
        d \in {EnDash, "-"}, fs \in SUBSET FieldSet, v \in {"plain", "loose", "blank"}}

\* the same entries with their labeled lines in two other orders
PermutedSingles ==
    {Permuted(b, o) : b \in {e \in EntrySingles : e.dash = EnDash},
                      o \in {DialogueFirst, BottomUp}}

\* one block with an en dash range and a hyphen range
TwoRangeSingles ==
    {TwoRanges(d, T0000, T0005, T10130, T10200, fs, late) :
        d \in {EnDash, "-"}, fs \in {{}, {"Speaker", "S"}}, late \in BOOLEAN}

RECURSIVE SeqsUpTo(_, _)
SeqsUpTo(S, n) ==
    IF n = 0 THEN {<<>>}
    ELSE LET shorter == SeqsUpTo(S, n - 1)
         IN  shorter \cup {Append(q, x) : q \in {r \in shorter : Len(r) = n - 1}, x \in S}

ParseInputs ==
    {[blocks |-> bs, closed |-> c] :
        bs \in SeqsUpTo(EntryMenu \cup NoiseMenu, MaxBlocks)
               \cup {<<b>> : b \in EntrySingles \cup NoiseSingles
                                   \cup PermutedSingles \cup TwoRangeSingles},
        c \in BOOLEAN}

----------------------------------------------------------------------------
(* Numbers and the arithmetic of handleSeek *)

NaN == [nan |-> TRUE, v |-> 0]

Num(v) == [nan |-> FALSE, v |-> v]

DigitValue(c) ==
    CASE c = "0" -> 0 [] c = "1" -> 1 [] c = "2" -> 2 [] c = "3" -> 3
      [] c = "4" -> 4 [] c = "5" -> 5 [] c = "6" -> 6 [] c = "7" -> 7
      [] c = "8" -> 8 [] c = "9" -> 9

RECURSIVE DigitsValue(_)
DigitsValue(ds) ==
    IF ds = <<>> THEN 0
    ELSE 10 * DigitsValue(SubSeq(ds, 1, Len(ds) - 1)) + DigitValue(ds[Len(ds)])

\* the fraction digits as thousandths (digits past the third are dropped)
FracValue(ds) ==
    (IF Len(ds) >= 1 THEN 100 * DigitValue(ds[1]) ELSE 0)
    + (IF Len(ds) >= 2 THEN 10 * DigitValue(ds[2]) ELSE 0)
    + (IF Len(ds) >= 3 THEN DigitValue(ds[3]) ELSE 0)

\* parseFloat: leading white space, a sign, digits, a fraction; whatever
\* follows is ignored; NaN when no digit was read.  (Exponents and the word
\* Infinity are not modelled: no text of the model has a digit followed by
\* e or E, or that word.)
parseFloat(s) ==
    LET p0 == RunEnd(s, 1, WhiteSpace)
        signed == p0 <= Len(s) /\ s[p0] \in {"+", "-"}
        p == IF signed THEN p0 + 1 ELSE p0
        ie == RunEnd(s, p, Digits)
        dot == ie <= Len(s) /\ s[ie] = "."
        fe == IF dot THEN RunEnd(s, ie + 1, Digits) ELSE ie
        int == SubSeq(s, p, ie - 1)
        frac == IF dot THEN SubSeq(s, ie + 1, fe - 1) ELSE <<>>
        mag == 1000 * DigitsValue(int) + FracValue(frac)
    IN  IF int = <<>> /\ frac = <<>> THEN NaN
        ELSE Num(IF signed /\ s[p0] = "-" THEN 0 - mag ELSE mag)

\* a * k for an integer literal k, and a + b; NaN propagates
Times(a, k) == IF a.nan THEN NaN ELSE Num(a.v * k)

Plus(a, b) == IF a.nan \/ b.nan THEN NaN ELSE Num(a.v + b.v)

\* time.split(':').map(parseFloat)
SeekParts(time) ==
    LET strs == Split(time, <<":">>)
    IN  [i \in 1..Len(strs) |-> parseFloat(strs[i])]

\* `seconds` when handleSeek reaches its isNaN test
SecondsMinutesAsHours(time) ==
    LET parts == SeekParts(time)
    IN  IF Len(parts) = 3
        THEN Plus(Plus(Times(parts[1], 3600), Times(parts[2], 60)), parts[3])
        ELSE IF Len(parts) = 2 THEN Plus(Times(parts[1], 3600), Times(parts[2], 60))
        ELSE IF Len(parts) = 1 THEN parts[1]
        ELSE Num(0)

Seconds(time) ==
    LET parts == SeekParts(time)
    IN  IF Len(parts) = 3
        THEN Plus(Plus(Times(parts[1], 3600), Times(parts[2], 60)), parts[3])
        ELSE IF Len(parts) = 2 THEN Plus(Times(parts[1], 60), parts[2])
        ELSE IF Len(parts) = 1 THEN parts[1]
        ELSE Num(0)

----------------------------------------------------------------------------
(* The App state *)

Files == {"a.mp4", "b.mp4"}

NoFile == "<null>"
NoUrl == "<null>"
NoError == "<null>"

ScriptNull == [isNull |-> TRUE, value |-> <<>>]

ScriptOf(ls) == [isNull |-> FALSE, value |-> ls]

Idle == [isProcessing |-> FALSE, step |-> 0, message |-> ""]

Analysing ==
    [isProcessing |-> TRUE, step |-> 1,
     message |-> "Performing Global Video Analysis (00:00 - END)..."]

ParsingError ==
    "Parsing Error: AI output didn't follow the 20+ timestamp granular format."

ConversionError == "File conversion failed."

\* err.message of a failed generateContent call
ApiErrors == {"Request failed."}

NoInput == [blocks |-> <<>>, closed |-> FALSE]

\* what the generation call may answer with
Responses ==
    {NoInput,
     [blocks |-> <<Noise(<<"j", "u", "s", "t", " ", "p", "r", "o", "s", "e">>)>>, closed |-> FALSE],
     [blocks |-> <<Entry(EnDash, T0005, T0010, FieldSet, "plain")>>, closed |-> TRUE],
     [blocks |-> <<Entry(EnDash, T10130, T10200, {}, "plain"),
                   Entry("-", T0000, T0005, {"Speaker", "S"}, "plain")>>,
      closed |-> TRUE],
     [blocks |-> <<Noise(<<" ", "\n">>), Entry("-", T0000, T0005, {"Speaker", "S"}, "plain")>>,
      closed |-> FALSE]}

Init ==
    /\ videoFile = NoFile
    /\ videoUrl = NoUrl
    /\ script = ScriptNull
    /\ error = NoError
    /\ processing = Idle
    /\ genPc = "idle"
    /\ genFile = NoFile
    /\ input = NoInput
    /\ rawText = <<>>
    /\ lines = <<>>
    /\ scriptFile = NoFile
    /\ seekTime = <<>>
    /\ currentTime = Num(0)
    /\ playing = FALSE
    /\ playPending = FALSE
    /\ last = "init"

\* handleFileSelect; the <video> element is given the new src
handleFileSelect(file) ==
    /\ videoFile' = file
    /\ videoUrl' = file
    /\ script' = ScriptNull
    /\ scriptFile' = NoFile
    /\ error' = NoError
    /\ currentTime' = Num(0)
    /\ playing' = FALSE
    /\ playPending' = FALSE
    /\ last' = "handleFileSelect"
    /\ UNCHANGED <<processing, genPc, genFile, input, rawText, lines, seekTime>>

\* generateTamilScript up to its first await; no run starts while one is
\* under way (the only caller is hidden while processing, part_000:466)
generateTamilScript ==
    /\ ~processing.isProcessing
    /\ IF videoFile = NoFile
       THEN UNCHANGED <<processing, error, genPc, genFile>>
       ELSE /\ processing' = Analysing
            /\ error' = NoError
            /\ genPc' = "fileToBase64"
            /\ genFile' = videoFile
    /\ last' = "generateTamilScript"
    /\ UNCHANGED <<videoFile, videoUrl, script, scriptFile, input, rawText, lines, seekTime,
                   currentTime, playing, playPending>>

\* the Generate button is rendered (a file is selected, nothing is
\* processing) and clicked
generateClick ==
    /\ videoFile # NoFile
    /\ generateTamilScript

\* fileToBase64 resolves and generateContent is called; the answer the
\* service will give is fixed here
fileToBase64Resolve ==
    /\ genPc = "fileToBase64"
    /\ genPc' = "generateContent"
    /\ \E r \in Responses : input' = r /\ rawText' = RawText(r)
    /\ last' = "fileToBase64.resolve"
    /\ UNCHANGED <<videoFile, videoUrl, script, scriptFile, error, processing, genFile, lines,
                   seekTime, currentTime, playing, playPending>>

\* the catch block
CatchKeepsProcessing(message) ==
    /\ error' = message
    /\ genPc' = "idle"
    /\ UNCHANGED processing

Catch(message) ==
    /\ error' = message
    /\ processing' = Idle
    /\ genPc' = "idle"

fileToBase64Reject ==
    /\ genPc = "fileToBase64"
    /\ Catch(ConversionError)
    /\ last' = "fileToBase64.reject"
    /\ UNCHANGED <<videoFile, videoUrl, script, scriptFile, genFile, input, rawText, lines,
                   seekTime, currentTime, playing, playPending>>

generateContentReject ==
    /\ genPc = "generateContent"
    /\ \E m \in ApiErrors : Catch(m)
    /\ last' = "generateContent.reject"
    /\ UNCHANGED <<videoFile, videoUrl, script, scriptFile, genFile, input, rawText, lines,
                   seekTime, currentTime, playing, playPending>>

\* parseScript(text)
parseScriptStoresEmpty(text) ==
    /\ lines' = ParseScriptLines(text)
    /\ script' = ScriptOf(lines')
    /\ UNCHANGED error

parseScriptMerges(text) ==
    /\ lines' = ParseScriptLines(text)
    /\ IF Len(lines') = 0
       THEN error' = ParsingError /\ UNCHANGED script
       ELSE script' = ScriptOf(script.value \o lines') /\ UNCHANGED error

parseScriptNoDiagnostic(text) ==
    /\ lines' = ParseScriptLines(text)
    /\ IF Len(lines') = 0
       THEN UNCHANGED <<error, script>>
       ELSE script' = ScriptOf(lines') /\ UNCHANGED error

parseScript(text) ==
    /\ lines' = ParseScriptLines(text)
    /\ IF Len(lines') = 0
       THEN error' = ParsingError /\ UNCHANGED script
       ELSE script' = ScriptOf(lines') /\ UNCHANGED error

\* generateContent resolves: the rest of the try block
generateContentResolve ==
    /\ genPc = "generateContent"
    /\ parseScript(rawText)
    /\ scriptFile' = (IF Len(lines') = 0 THEN scriptFile ELSE genFile)
    /\ processing' = Idle
    /\ genPc' = "idle"
    /\ last' = "generateContent.resolve"
    /\ UNCHANGED <<videoFile, videoUrl, genFile, input, rawText, seekTime,
                   currentTime, playing, playPending>>

\* handleSeek(time); videoRef.current is the <video> element, rendered
\* when videoUrl is set (VideoUploader.tsx:50)
handleSeekNoPlay(time) ==
    /\ seekTime' = time
    /\ last' = "handleSeek"
    /\ IF videoUrl # NoUrl /\ ~Seconds(time).nan
       THEN currentTime' = Seconds(time) /\ UNCHANGED playPending
       ELSE UNCHANGED <<currentTime, playPending>>
    /\ UNCHANGED <<videoFile, videoUrl, script, scriptFile, error, processing, genPc, genFile,
                   input, rawText, lines, playing>>

handleSeek(time) ==
    /\ seekTime' = time
    /\ last' = "handleSeek"
    /\ IF videoUrl = NoUrl
       THEN UNCHANGED <<currentTime, playPending>>
       ELSE IF ~Seconds(time).nan
            THEN currentTime' = Seconds(time) /\ playPending' = TRUE
            ELSE UNCHANGED <<currentTime, playPending>>
    /\ UNCHANGED <<videoFile, videoUrl, script, scriptFile, error, processing, genPc, genFile,
                   input, rawText, lines, playing>>

\* a timestamp button of ScriptViewer is clicked (VideoUploader.tsx:113);
\* ScriptViewer is rendered when a script is held and nothing is processing
seekClick ==
    /\ ~processing.isProcessing
    /\ ~script.isNull
    /\ \E i \in 1..Len(script.value) : handleSeek(script.value[i].startTime)

\* the play() promise settles
playResolve ==
    /\ playPending
    /\ playPending' = FALSE
    /\ playing' = TRUE
    /\ last' = "play.resolve"
    /\ UNCHANGED <<videoFile, videoUrl, script, scriptFile, error, processing, genPc, genFile,
                   input, rawText, lines, seekTime, currentTime>>

\* .catch(() => {})
playRejectSetsError ==
    /\ playPending
    /\ playPending' = FALSE
    /\ error' = "play() failed"
    /\ last' = "play.reject"
    /\ UNCHANGED <<videoFile, videoUrl, script, scriptFile, processing, genPc, genFile,
                   input, rawText, lines, seekTime, currentTime, playing>>

playReject ==
    /\ playPending
    /\ playPending' = FALSE
    /\ last' = "play.reject"
    /\ UNCHANGED <<videoFile, videoUrl, script, scriptFile, error, processing, genPc, genFile,
                   input, rawText, lines, seekTime, currentTime, playing>>

Next ==
    \/ \E file \in Files : handleFileSelect(file)
    \/ generateClick
    \/ fileToBase64Resolve
    \/ fileToBase64Reject
    \/ generateContentResolve
    \/ generateContentReject
    \/ seekClick
    \/ playResolve
    \/ playReject

Spec == Init /\ [][Next]_vars

----------------------------------------------------------------------------
(* generateTamilScript alone: the function is called in any state with no  *)
(* run under way, a file selected or not; a pending fileToBase64 or        *)
(* generateContent promise settles in the end                              *)

GenNext ==
    \/ \E file \in Files : handleFileSelect(file)
    \/ generateTamilScript
    \/ fileToBase64Resolve
    \/ fileToBase64Reject
    \/ generateContentResolve
    \/ generateContentReject

\* A pending promise settles.  generateContentReject is enabled exactly
\* while the generateContent promise is pending, and either way of settling
\* it ends that, so weak fairness of the rejection alone is the condition
\* "the promise settles, one way or the other".
GenSpec ==
    /\ Init
    /\ [][GenNext]_vars
    /\ WF_vars(fileToBase64Resolve \/ fileToBase64Reject)
    /\ WF_vars(generateContentReject)

----------------------------------------------------------------------------
(* parseScript alone: a generation waits for its answer, any text of       *)
(* ParseInputs, and the answer arrives                                     *)

ParseInit ==
    /\ videoFile = "a.mp4"
    /\ videoUrl = "a.mp4"
    /\ script = ScriptNull
    /\ error = NoError
    /\ processing = Analysing
    /\ genPc = "generateContent"
    /\ genFile = "a.mp4"
    /\ input \in ParseInputs
    /\ rawText = RawText(input)
    /\ lines = <<>>
    /\ scriptFile = NoFile
    /\ seekTime = <<>>
    /\ currentTime = Num(0)
    /\ playing = FALSE
    /\ playPending = FALSE
    /\ last = "init"

ParseNext == generateContentResolve

ParseSpec == ParseInit /\ [][ParseNext]_vars

----------------------------------------------------------------------------
(* handleSeek alone: the media element is somewhere in the video (or not   *)
(* rendered), and one timestamp of SeekInputs is clicked                   *)

\* components parseFloat reads as a number, with that number in thousandths
NumericComponents ==
    {[txt |-> <<"9", "0">>, val |-> 90000], [txt |-> <<"1">>, val |-> 1000],
     [txt |-> <<"0", "1">>, val |-> 1000], [txt |-> <<"3", "0">>, val |-> 30000],
     [txt |-> <<"1", "2", ".", "5">>, val |-> 12500]}

\* components parseFloat reads as NaN
GarbageComponents ==
    {[txt |-> <<>>, val |-> 0], [txt |-> <<"a", "b", "c">>, val |-> 0]}

RECURSIVE TimeText(_)
TimeText(cs) ==
    IF Len(cs) = 1 THEN cs[1].txt
    ELSE cs[1].txt \o <<":">> \o TimeText(Tail(cs))

SeekComponents ==
    SeqsUpTo(NumericComponents \cup GarbageComponents, MaxParts) \ {<<>>}

SeekInputs == {TimeText(cs) : cs \in SeekComponents}

SeekStart == Num(7000)

SeekInit ==
    /\ videoFile \in {NoFile, "a.mp4"}
    /\ videoUrl = videoFile
    /\ script = ScriptNull
    /\ error = NoError
    /\ processing = Idle
    /\ genPc = "idle"
    /\ genFile = NoFile
    /\ input = NoInput
    /\ rawText = <<>>
    /\ lines = <<>>
    /\ scriptFile = NoFile
    /\ seekTime \in SeekInputs
    /\ currentTime = SeekStart
    /\ playing = FALSE
    /\ playPending = FALSE
    /\ last = "init"

SeekNext ==
    \/ handleSeek(seekTime)
    \/ playResolve
    \/ playReject

SeekSpec == SeekInit /\ [][SeekNext]_vars

----------------------------------------------------------------------------
(* Properties of parseScript (ParseSpec) *)

Decoded == last = "generateContent.resolve"

EntryBlocks(in) == SelectSeq(in.blocks, LAMBDA b : b.kind # "noise")

AllEntries(in) == in.blocks # <<>> /\ \A i \in 1..Len(in.blocks) : in.blocks[i].kind = "entry"

\* C1: a text of N entries, each with a bracketed time range, decodes to
\* exactly N lines, the i-th with the start and end time of the i-th entry
\* in input order, whatever labeled fields the entries have.
C1_LinesPerEntryInOrder ==
    (Decoded /\ AllEntries(input)) =>
        /\ Len(lines) = Len(input.blocks)
        /\ \A i \in 1..Len(input.blocks) :
              /\ lines[i].startTime = input.blocks[i].start
              /\ lines[i].endTime = input.blocks[i].end

\* three entries decoded, the first later in time than the second
C1_Witness ==
    /\ Decoded
    /\ AllEntries(input)
    /\ Len(input.blocks) = 3
    /\ input.blocks[1].start = T10130
    /\ input.blocks[2].start = T0000
    /\ input.blocks[3].fields = FieldSet
    /\ Len(lines) = 3
    /\ lines[1].startTime = T10130
    /\ lines[2].startTime = T0000

WithoutNoise(in) == [blocks |-> EntryBlocks(in), closed |-> in.closed]

\* C2: a block with no bracketed time range (white space only, prose, a
\* malformed range) adds no line, and the lines of a text are those of the
\* text with such blocks taken out.
C2_NoiseBlocksAddNothing ==
    Decoded =>
        /\ Len(lines) = Len(EntryBlocks(input))
        /\ lines = ParseScriptLines(RawText(WithoutNoise(input)))

\* noise before, between and after two entries
C2_Witness ==
    /\ Decoded
    /\ Len(input.blocks) = 3
    /\ input.blocks[1].kind = "entry"
    /\ input.blocks[2] = Noise(<<"S", "p", "e", "a", "k", "e", "r", ":", " ", "K", "u", "m", "a", "r">>)
    /\ input.blocks[3].kind = "entry"
    /\ input.closed
    /\ Len(lines) = 2

\* C3: every line emitted has a non-empty startTime and a non-empty endTime.
C3_TimesNonEmpty ==
    Decoded =>
        /\ \A i \in 1..Len(lines) : lines[i].startTime # <<>> /\ lines[i].endTime # <<>>
        /\ \A i \in 1..Len(script.value) :
              script.value[i].startTime # <<>> /\ script.value[i].endTime # <<>>

\* a bracket with an empty start time was in the text, next to a real entry
C3_Witness ==
    /\ Decoded
    /\ Len(input.blocks) = 2
    /\ input.blocks[1] = Noise(<<"[", " ", EnDash, " ", "0", ":", "0", "5", "]">>)
    /\ input.blocks[2].kind = "entry"
    /\ Len(lines) = 1
    /\ script = ScriptOf(lines)

FieldOf(line, f) ==
    CASE f = "Speaker" -> line.person
      [] f = "Original Meaning" -> line.originalMeaning
      [] f = "Emotion" -> line.emotion
      [] f = "Action Description" -> line.actionDescription
      [] f = "S" -> line.versions.spoken
      [] f = "T" -> line.versions.tanglish
      [] f = "L" -> line.versions.syncShort

DefaultOf(f) ==
    CASE f = "Speaker" -> Unknown
      [] f = "Emotion" -> Neutral
      [] OTHER -> <<>>

\* C4: in a block with a time range every labeled field that is absent
\* yields its default, whatever the other fields are, and a block with no
\* labeled field yields one line of defaults with its times.
C4_AbsentFieldsDefault ==
    (Decoded /\ AllEntries(input) /\ Len(input.blocks) = 1) =>
        /\ Len(lines) = 1
        /\ lines[1].startTime = input.blocks[1].start
        /\ lines[1].endTime = input.blocks[1].end
        /\ \A f \in FieldSet \ input.blocks[1].fields :
              FieldOf(lines[1], f) = DefaultOf(f)

\* C5: a decode that recovers no line ends with an empty `lines`, the
\* diagnostic in `error` and the processing state reset (nothing was
\* thrown into the catch block); one that recovers a line sets no error.
C5_EmptyDecodeDiagnostic ==
    Decoded =>
        /\ processing = Idle
        /\ EntryBlocks(input) = <<>> => (lines = <<>> /\ script.isNull)
        /\ lines = <<>> => (error = ParsingError /\ error \notin {NoError, ""})
        /\ lines # <<>> => error = NoError

\* prose with no markers was decoded
C5_Witness ==
    /\ Decoded
    /\ input = [blocks |-> <<Noise(<<"j", "u", "s", "t", " ", "p", "r", "o", "s", "e">>)>>, closed |-> FALSE]
    /\ lines = <<>>
    /\ error = ParsingError

EnDashForm(in) ==
    [blocks |-> [i \in 1..Len(in.blocks) |->
                    IF in.blocks[i].kind = "entry"
                    THEN [in.blocks[i] EXCEPT !.dash = EnDash]
                    ELSE in.blocks[i]],
     closed |-> in.closed]

\* C10: a text whose time ranges are written with the ASCII hyphen decodes
\* to the same lines as the text with those ranges written with en dashes.
C10_HyphenAsEnDash ==
    Decoded =>
        /\ lines = ParseScriptLines(RawText(EnDashForm(input)))
        /\ Len(lines) = Len(EntryBlocks(input))

\* one hyphen entry with all its fields was decoded
C10_Witness ==
    /\ Decoded
    /\ Len(input.blocks) = 1
    /\ input.blocks[1].kind = "entry"
    /\ input.blocks[1].dash = "-"
    /\ input.blocks[1].fields = FieldSet
    /\ Len(lines) = 1
    /\ lines[1].startTime = T0000
    /\ lines[1].versions.syncShort = <<"v", "n", "a">>

----------------------------------------------------------------------------
(* Properties of the App state (Spec) *)

\* C6 as claimed: after a decode the script held is the result of that
\* decode, with nothing of an earlier decode left.
C6_ScriptIsLastDecode ==
    Decoded => (IF script.isNull THEN lines = <<>> ELSE script.value = lines)

\* C6: a decode that recovers at least one line replaces the script held by
\* exactly its lines, one per entry of the answer and none of an earlier
\* decode; a decode that recovers none leaves the script held as it was.
C6_DecodeReplacesOrKeeps ==
    [][(last' = "generateContent.resolve") =>
          IF lines' # <<>>
          THEN /\ script' = ScriptOf(lines')
               /\ Len(script'.value) = Len(EntryBlocks(input))
          ELSE script' = script]_vars

\* a decode of prose came after a decode of two entries for the same file
C6_Witness ==
    /\ Decoded
    /\ lines = <<>>
    /\ ~script.isNull
    /\ Len(script.value) = 2
    /\ error = ParsingError

----------------------------------------------------------------------------
(* Properties of handleSeek (SeekSpec) *)

Sought == last # "init"

NumericTimes ==
    {cs \in SeekComponents : Len(cs) <= 3 /\ \A i \in 1..Len(cs) : cs[i] \in NumericComponents}

\* component, minutes * 60 + seconds, hours * 3600 + minutes * 60 + seconds
ExpectedSeconds(cs) ==
    IF Len(cs) = 1 THEN cs[1].val
    ELSE IF Len(cs) = 2 THEN cs[1].val * 60 + cs[2].val
    ELSE cs[1].val * 3600 + cs[2].val * 60 + cs[3].val

\* C7: for numeric components handleSeek computes the component itself
\* (no colon), minutes * 60 + seconds (one colon), hours * 3600 +
\* minutes * 60 + seconds (two colons): the position it sets is that number.
C7_SecondsOfComponents ==
    (Sought /\ videoUrl # NoUrl) =>
        /\ \A cs \in NumericTimes :
              seekTime = TimeText(cs) => currentTime = Num(ExpectedSeconds(cs))
        /\ seekTime = <<"9", "0">> => currentTime = Num(90000)
        /\ seekTime = <<"1", ":", "3", "0">> => currentTime = Num(90000)
        /\ seekTime = <<"1", ":", "0", "1", ":", "3", "0">> => currentTime = Num(3690000)

\* 1:01:30 was sought
C7_Witness ==
    /\ last = "handleSeek"
    /\ videoUrl # NoUrl
    /\ seekTime = <<"1", ":", "0", "1", ":", "3", "0">>
    /\ currentTime = Num(3690000)

HasGarbage(cs) == \E i \in 1..Len(cs) : cs[i] \in GarbageComponents

\* C8: when a component of the timestamp does not parse as a number the
\* seek does nothing: the position stays, play is not started, no error.
C8_GarbageIsNoOp ==
    Sought =>
        \A cs \in SeekComponents :
            (seekTime = TimeText(cs) /\ HasGarbage(cs)) =>
                /\ currentTime = SeekStart
                /\ ~playPending
                /\ ~playing
                /\ error = NoError

\* C9: with the media element present and a valid timestamp handleSeek
\* sets the position to the seconds computed and calls play(); a rejected
\* play() changes nothing but the pending promise, the error least of all.
C9_SeekSetsPositionAndPlays ==
    [][/\ (last' = "handleSeek" /\ videoUrl # NoUrl) =>
            \A cs \in NumericTimes :
                seekTime' = TimeText(cs) =>
                    currentTime' = Num(ExpectedSeconds(cs)) /\ playPending'
       /\ (last' = "play.reject") =>
            /\ error' = error
            /\ ~playPending'
            /\ UNCHANGED <<currentTime, playing, script, processing>>]_vars

\* play() was rejected after a seek to 1:30
C9_Witness ==
    /\ last = "play.reject"
    /\ seekTime = <<"1", ":", "3", "0">>
    /\ currentTime = Num(90000)
    /\ ~playPending
    /\ ~playing
    /\ error = NoError

----------------------------------------------------------------------------
(* Properties of parseScript (ParseSpec), continued *)

\* one block, an entry with one time range
OneEntry(in) == Len(in.blocks) = 1 /\ in.blocks[1].kind = "entry"

ConventionalForm(in) ==
    [blocks |-> [i \in 1..Len(in.blocks) |-> Permuted(in.blocks[i], FieldNames)],
     closed |-> in.closed]

\* C11: the line decoded from an entry does not depend on the order of its
\* labeled lines: it is the line of the entry with the lines in the
\* conventional order.
C11_OrderOfLinesIrrelevant ==
    (Decoded /\ OneEntry(input)) =>
        lines = ParseScriptLines(RawText(ConventionalForm(input)))

\* C12: in every line emitted the legacy field dialogue equals
\* versions.spoken (the value of the S line when the entry has one).
C12_DialogueIsSpoken ==
    Decoded =>
        /\ \A i \in 1..Len(lines) : lines[i].dialogue = lines[i].versions.spoken
        /\ \A i \in 1..Len(script.value) :
              script.value[i].dialogue = script.value[i].versions.spoken
        /\ (OneEntry(input) /\ input.blocks[1].vals = "plain"
                /\ "S" \in input.blocks[1].fields) =>
              lines[1].dialogue = PlainValue("S")

\* an entry with an S line was decoded
C12_Witness ==
    /\ Decoded
    /\ OneEntry(input)
    /\ input.blocks[1].vals = "plain"
    /\ input.blocks[1].fields = {"S", "T"}
    /\ lines[1].dialogue = <<"v", "a">>
    /\ lines[1].versions.spoken = <<"v", "a">>

\* C13: an entry with an Action Description line of non-empty text and no
\* S, T or L line yields a line with a non-empty actionDescription and the
\* three dialogue versions empty.
C13_ActionOnly ==
    (Decoded /\ OneEntry(input)
        /\ "Action Description" \in input.blocks[1].fields
        /\ input.blocks[1].fields \cap {"S", "T", "L"} = {}) =>
        /\ Len(lines) = 1
        /\ lines[1].actionDescription # <<>>
        /\ lines[1].versions.spoken = <<>>
        /\ lines[1].versions.tanglish = <<>>
        /\ lines[1].versions.syncShort = <<>>

\* C14: the value of a labeled field is the text of its own line after the
\* colon, trimmed: a line with no value yields the empty string, never the
\* text of the line after it.
C14_ValueIsRestOfOwnLine ==
    (Decoded /\ OneEntry(input) /\ input.blocks[1].vals # "loose") =>
        \A f \in input.blocks[1].fields :
            FieldOf(lines[1], f) = Trim(ValueOf(input.blocks[1], f))

\* C15: S, T and L are matched only at the start of a line: text ending in
\* s:, t: or l: inside a word or inside another field's value never
\* supplies spoken, phonetic or short-sync.
C15_SingleLettersAnchored ==
    (Decoded /\ OneEntry(input) /\ input.blocks[1].vals # "blank") =>
        \A f \in {"S", "T", "L"} :
            FieldOf(lines[1], f) =
                IF f \in input.blocks[1].fields
                THEN ValueOf(input.blocks[1], f) ELSE <<>>

\* the times of the en dash range of a block with two ranges
EnDashStart(b) == IF b.dash = EnDash THEN b.start ELSE b.start2

EnDashEnd(b) == IF b.dash = EnDash THEN b.end ELSE b.end2

\* C17: of a block with an en dash range and a hyphen range the line has
\* the times of the en dash range, wherever it stands; the hyphen range
\* gives the times only of a block with no en dash range.
C17_EnDashBeforeHyphen ==
    (Decoded /\ Len(input.blocks) = 1) =>
        /\ input.blocks[1].kind = "both" =>
              /\ Len(lines) = 1
              /\ lines[1].startTime = EnDashStart(input.blocks[1])
              /\ lines[1].endTime = EnDashEnd(input.blocks[1])
        /\ (input.blocks[1].kind = "entry" /\ input.blocks[1].dash = "-") =>
              /\ Len(lines) = 1
              /\ lines[1].startTime = input.blocks[1].start
              /\ lines[1].endTime = input.blocks[1].end

\* the hyphen range stood first, the en dash range after the labeled lines
C17_Witness ==
    /\ Decoded
    /\ Len(input.blocks) = 1
    /\ input.blocks[1].kind = "both"
    /\ input.blocks[1].dash = "-"
    /\ input.blocks[1].late
    /\ input.blocks[1].fields = {"Speaker", "S"}
    /\ lines[1].startTime = T10130
    /\ lines[1].endTime = T10200

----------------------------------------------------------------------------
(* Properties of handleSeek (SeekSpec), continued *)

\* C16: a timestamp with more than two colons is invalid for the seek: the
\* position stays and play is not started.
C16_MoreThanTwoColonsInvalid ==
    Sought =>
        \A cs \in SeekComponents :
            (seekTime = TimeText(cs) /\ Len(cs) > 3) =>
                /\ currentTime = SeekStart
                /\ ~playPending
                /\ ~playing

----------------------------------------------------------------------------
(* Properties of the App state (Spec, GenSpec), continued *)

\* C18: a script held for display was decoded from the answer for the
\* file now selected: selecting a file clears script and error, and the
\* answer for a file selected before does not install its script.
C18_ScriptOfSelectedFile ==
    /\ ~script.isNull => scriptFile = videoFile
    /\ last = "handleFileSelect" => (script.isNull /\ error = NoError)

\* the state the App holds, without the record of the last handler
AppState ==
    <<videoFile, videoUrl, script, error, processing, genPc, genFile, input,
      rawText, lines, scriptFile, seekTime, currentTime, playing, playPending>>

\* C19: a run of generateTamilScript that sets isProcessing sets it back to
\* false with step 0 in the end: when the answer is decoded (with lines or
\* with none), and with the failure message in error when the conversion
\* or the call fails; called with no file selected it changes nothing.
C19_ProcessingEnds ==
    /\ processing.isProcessing ~> (processing = Idle)
    /\ [][/\ (last' = "generateTamilScript") =>
                IF videoFile = NoFile
                THEN UNCHANGED AppState
                ELSE processing'.isProcessing /\ processing'.step = 1
          /\ (last' = "fileToBase64.reject") =>
                (processing' = Idle /\ error' = ConversionError)
          /\ (last' = "generateContent.reject") =>
                (processing' = Idle /\ error' \in ApiErrors)
          /\ (last' = "generateContent.resolve") =>
                /\ processing' = Idle
                /\ lines' = <<>> => error' = ParsingError]_vars
    /\ [](processing.isProcessing <=> genPc # "idle")

\* the call failed and the run ended
C19_Witness ==
    /\ last = "generateContent.reject"
    /\ processing = Idle
    /\ processing.step = 0
    /\ ~processing.isProcessing
    /\ error \in ApiErrors

\* C20: the script state is null or a non-empty sequence, never an empty
\* sequence.
C20_ScriptNullOrNonEmpty ==
    /\ script.isNull => script.value = <<>>
    /\ ~script.isNull => Len(script.value) > 0

\* a decode that recovered nothing, and nothing was stored
C20_Witness ==
    /\ Decoded
    /\ lines = <<>>
    /\ script.isNull
    /\ error = ParsingError

====
